---- MODULE Spec2Model ----
(***************************************************************************)
(* s3-explorer-static-generator: the main routine of the generator.        *)
(*                                                                         *)
(* Strings are sequences of one-character strings, so that split,          *)
(* startsWith, substring and path.join are computed character by           *)
(* character as the source computes them.                                  *)
(*                                                                         *)
(* Spec is the whole run: the option checks, the listing loop against a    *)
(* storage that chooses every page and marker, the node pipeline, the      *)
(* concurrent page emission tasks with their failures, the sitemap and     *)
(* the copy of the public folder.  TreeSpec starts after the listing loop  *)
(* and runs the node pipeline and the page models on every listing of a    *)
(* larger bound.  The URL of a node and the console output are not         *)
(* modelled: nothing below reads them.                                     *)
(***************************************************************************)
EXTENDS Naturals, Sequences, FiniteSets

\* ------------------------------------------------------------------ bounds
\* Total number of characters of the keys of a listing (tree pipeline).
MaxChars == 6
\* Total number of characters of the keys the storage serves (whole run).
MaxServedChars == 4

\* MaxKeys of the first ListObjectsCommand and of the following ones.
FirstMaxKeys == 1000
NextMaxKeys == 100

\* The characters of object keys: a letter, the dot and the separator.
Alphabet == {"a", ".", "/"}
Slash == <<"/">>
Dot == <<".">>
\* The name of the index document, one path segment.
IndexHtml == <<"index.html">>

\* NextMarker / Marker: undefined, or a cursor; `response` before the first send.
NoMarker == "undefined"
Markers == {"m1", "m2"}
Unset == "unset"

KeysOfLen(n) == [1..n -> Alphabet]

KeysUpTo(n) == UNION {KeysOfLen(k) : k \in 1..n}

SeqToSet(s) == {s[i] : i \in 1..Len(s)}

RECURSIVE TotalChars(_)
TotalChars(keys) ==
    IF keys = <<>> THEN 0 ELSE Len(Head(keys)) + TotalChars(Tail(keys))

\* Every sequence of distinct keys, in any order, of at most n characters in all.
RECURSIVE ListingsAvoiding(_, _)
ListingsAvoiding(n, used) ==
    {<<>>} \cup
    UNION {{<<k>> \o rest : rest \in ListingsAvoiding(n - Len(k), used \cup {k})} :
           k \in KeysUpTo(n) \ used}

ListingsUpTo(n) == ListingsAvoiding(n, {})

\* ------------------------------------------------------- string functions
\* str.split("/")
RECURSIVE Split(_)
Split(str) ==
    IF str = <<>> THEN << <<>> >>
    ELSE LET rest == Split(Tail(str))
         IN  IF Head(str) = "/" THEN << <<>> >> \o rest
             ELSE << <<Head(str)>> \o rest[1] >> \o Tail(rest)

\* parts.join(sep)
RECURSIVE Join(_, _)
Join(parts, sep) ==
    IF parts = <<>> THEN <<>>
    ELSE IF Len(parts) = 1 THEN parts[1]
    ELSE parts[1] \o sep \o Join(Tail(parts), sep)

\* str.startsWith(prefix)
StartsWith(str, prefix) ==
    /\ Len(prefix) <= Len(str)
    /\ \A i \in 1..Len(prefix) : str[i] = prefix[i]

\* parts.slice(0, n)
Slice(parts, n) == [i \in 1..n |-> parts[i]]

\* parts.slice(0, -1)
DropLast(parts) == IF parts = <<>> THEN <<>> ELSE Slice(parts, Len(parts) - 1)

\* (key.split("/") ?? []).filter((part) => part.length > 0)
KeyPartsOf(key) == SelectSeq(Split(key), LAMBDA part : Len(part) > 0)

RECURSIVE StripLeading(_)
StripLeading(str) ==
    IF str # <<>> /\ Head(str) = "/" THEN StripLeading(Tail(str)) ELSE str

RECURSIVE StripTrailing(_)
StripTrailing(str) ==
    IF str # <<>> /\ str[Len(str)] = "/"
    THEN StripTrailing(Slice(str, Len(str) - 1)) ELSE str

removeLeadingTrailingSlashes(str) ==
    IF str = <<>> THEN str ELSE StripTrailing(StripLeading(str))

\* path.join(options.output, key), relative to the output root: empty and "."
\* segments vanish, ".." removes the segment before it or, with none left,
\* climbs above the output root (counted in up).
RECURSIVE Normalize(_, _)
Normalize(segs, acc) ==
    IF segs = <<>> THEN acc
    ELSE LET s == Head(segs)
         IN  IF s = <<>> \/ s = Dot THEN Normalize(Tail(segs), acc)
             ELSE IF s = <<".", ".">>
                  THEN IF acc.dirs = <<>>
                       THEN Normalize(Tail(segs), [acc EXCEPT !.up = @ + 1])
                       ELSE Normalize(Tail(segs), [acc EXCEPT !.dirs = DropLast(@)])
                  ELSE Normalize(Tail(segs), [acc EXCEPT !.dirs = Append(@, s)])

pathJoin(key) == Normalize(Split(key), [up |-> 0, dirs |-> <<>>])

\* path.join(saveLocation, "index.html")
IndexPath(key) == [pathJoin(key) EXCEPT !.dirs = Append(@, IndexHtml)]

\* ------------------------------------------------------------ the state
VARIABLES
    options,        \* program.opts(): which options are set
    pc,             \* position of the main routine
    command,        \* the ListObjectsCommand to send next
    response,       \* NextMarker of the last response
    network,        \* requests sent to storage and not answered yet
    allObjects,     \* keys accumulated by the listing loop
    lastReturned,   \* storage side: the NextMarker of the last page served
    servedObjects,  \* storage side: the keys of all pages served, in order
    result,         \* the node array as the pipeline transforms it
    tasks,          \* one emission task per node of result
    sitemap,        \* the Set of sitemap entries
    dirs,           \* directories created under the output root
    files,          \* index documents written: their path and their content
    sitemapFile,    \* sitemap.xml
    publicCopy      \* the copy of the public folder

vars == <<options, pc, command, response, network, allObjects, lastReturned,
          servedObjects, result, tasks, sitemap, dirs, files, sitemapFile,
          publicCopy>>

listingVars == <<command, response, network, allObjects, lastReturned, servedObjects>>
outputVars == <<sitemap, dirs, files, sitemapFile, publicCopy>>

\* --------------------------------------------------- the node pipeline
\* Faulty variant: a key is a folder when another key lies under it as a directory,
\* that is, starts with the key and a slash.
IsFolderKeyByDirectory(key, array) ==
    \E j \in 1..Len(array) :
        /\ StartsWith(array[j], IF key[Len(key)] = "/" THEN key ELSE key \o Slash)
        /\ array[j] # key

\* array.some((otherObject) => otherObject.Key?.startsWith(object.Key ?? "")
\*                             && otherObject.Key !== object.Key)
IsFolderKey(key, array) ==
    \E j \in 1..Len(array) : StartsWith(array[j], key) /\ array[j] # key

\* The callback of the first map: the node of a listed object.
MapObject(key, array) ==
    LET keyParts == KeyPartsOf(key)
        isFolder == IsFolderKey(key, array)
        fileName == keyParts[Len(keyParts)]
    IN  [Key |-> key, Stored |-> TRUE, KeyParts |-> keyParts,
         LevelsDeep |-> Len(keyParts), IsFolder |-> isFolder, IsFile |-> ~isFolder,
         IsHiddenFile |-> StartsWith(fileName, Dot),
         ParentKey |-> Join(DropLast(keyParts), Slash), FileName |-> fileName]

\* fileName is undefined for a key without a non-empty segment, and
\* fileName.startsWith throws a TypeError.
MapThrows(array) == \E i \in 1..Len(array) : KeyPartsOf(array[i]) = <<>>

\* The folder node pushed for index i of the loop of the flatMap callback.
Ancestor(object, i) ==
    LET joined == Join(Slice(object.KeyParts, i), Slash)
        key == IF Len(joined) = 0 THEN Slash ELSE joined
        keyParts == KeyPartsOf(key)
        fileName == IF keyParts = <<>> THEN <<>> ELSE keyParts[Len(keyParts)]
    IN  [Key |-> key, Stored |-> FALSE, KeyParts |-> keyParts,
         LevelsDeep |-> Len(keyParts), IsFolder |-> TRUE, IsFile |-> FALSE,
         IsHiddenFile |-> StartsWith(fileName, Dot),
         ParentKey |-> Join(DropLast(keyParts), Slash), FileName |-> fileName]

\* returnArray of the flatMap callback: the object, then its ancestors from
\* depth LevelsDeep - 1 down to the root.
WithAncestors(object) ==
    <<object>> \o [k \in 1..object.LevelsDeep |-> Ancestor(object, object.LevelsDeep - k)]

RECURSIVE FlatMap(_)
FlatMap(array) ==
    IF array = <<>> THEN <<>> ELSE WithAncestors(Head(array)) \o FlatMap(Tail(array))

\* array.findIndex((otherObject) => removeLeadingTrailingSlashes(otherObject.Key)
\*                                  === removeLeadingTrailingSlashes(object.Key))
FindIndexSameKey(array, object) ==
    CHOOSE j \in 1..Len(array) :
        /\ removeLeadingTrailingSlashes(array[j].Key) = removeLeadingTrailingSlashes(object.Key)
        /\ \A k \in 1..(j - 1) :
              removeLeadingTrailingSlashes(array[k].Key) # removeLeadingTrailingSlashes(object.Key)

\* Faulty variant: the filter compares the keys as listed, without removing slashes.
KeepsNodeRawKey(array, index) ==
    \A k \in 1..(index - 1) : array[k].Key # array[index].Key

\* The callback of the duplicate-key filter.
KeepsNode(array, index) == FindIndexSameKey(array, array[index]) = index

RECURSIVE FilterFrom(_, _)
FilterFrom(array, index) ==
    IF index > Len(array) THEN <<>>
    ELSE (IF KeepsNode(array, index) THEN <<array[index]>> ELSE <<>>)
         \o FilterFrom(array, index + 1)

FilterDuplicateKeys(array) == FilterFrom(array, 1)

\* Faulty variant: the root is not special-cased.
ChildrenOfByParentKey(object, array) ==
    SelectSeq(array, LAMBDA otherObject :
        removeLeadingTrailingSlashes(otherObject.ParentKey)
            = removeLeadingTrailingSlashes(object.Key))

\* The Children of the last map.
ChildrenOf(object, array) ==
    IF object.Key = Slash
    THEN SelectSeq(array, LAMBDA otherObject : otherObject.LevelsDeep = 1)
    ELSE SelectSeq(array, LAMBDA otherObject :
            removeLeadingTrailingSlashes(otherObject.ParentKey)
                = removeLeadingTrailingSlashes(object.Key))

WithChildren(object, array) ==
    [Key |-> object.Key, Stored |-> object.Stored, KeyParts |-> object.KeyParts,
     LevelsDeep |-> object.LevelsDeep, IsFolder |-> object.IsFolder,
     IsFile |-> object.IsFile, IsHiddenFile |-> object.IsHiddenFile,
     ParentKey |-> object.ParentKey, FileName |-> object.FileName,
     Children |-> ChildrenOf(object, array)]

\* ------------------------------------------------------- page emission
\* a.FileName.localeCompare(b.FileName) < 0 on names over the alphabet:
\* punctuation collates before letters, a proper prefix before its extensions.
CharRank(c) == IF c = "/" THEN 0 ELSE IF c = "." THEN 1 ELSE 2

RECURSIVE LocaleBefore(_, _)
LocaleBefore(a, b) ==
    IF b = <<>> THEN FALSE
    ELSE IF a = <<>> THEN TRUE
    ELSE IF Head(a) = Head(b) THEN LocaleBefore(Tail(a), Tail(b))
    ELSE CharRank(Head(a)) < CharRank(Head(b))

\* The sort callback returns a negative number.
SortsBefore(a, b) ==
    IF a.IsFolder /\ ~b.IsFolder THEN TRUE
    ELSE IF ~a.IsFolder /\ b.IsFolder THEN FALSE
    ELSE LocaleBefore(a.FileName, b.FileName)

RECURSIVE InsertSorted(_, _)
InsertSorted(x, sorted) ==
    IF sorted = <<>> THEN <<x>>
    ELSE IF SortsBefore(x, Head(sorted)) THEN <<x>> \o sorted
    ELSE <<Head(sorted)>> \o InsertSorted(x, Tail(sorted))

\* Array.prototype.sort is stable.
RECURSIVE SortItems(_, _)
SortItems(array, sorted) ==
    IF array = <<>> THEN sorted
    ELSE SortItems(Tail(array), InsertSorted(Head(array), sorted))

\* Faulty variant: only files are filtered out.
ShowsChildUnlessHiddenFile(child, includeHiddenFiles) ==
    includeHiddenFiles \/ ~(child.IsFile /\ child.IsHiddenFile)

\* The filter callback of the items of a page.
ShowsChild(child, includeHiddenFiles) == includeHiddenFiles \/ ~child.IsHiddenFile

\* "items" of the template model of a folder page.
PageItems(object, includeHiddenFiles) ==
    SortItems(SelectSeq(object.Children,
                        LAMBDA child : ShowsChild(child, includeHiddenFiles)), <<>>)

\* The task the async callback of result.map leaves behind at its first await.
SpawnTask(object, includeHiddenFiles) ==
    IF object.IsFile
    THEN [state |-> "returned", items |-> <<>>]
    ELSE [state |-> "render", items |-> PageItems(object, includeHiddenFiles)]

\* The rendered document: its title and the keys of its items, in order.
PageOf(object, task) ==
    [title |-> object.FileName,
     items |-> [k \in 1..Len(task.items) |-> task.items[k].Key]]

\* fs.mkdir(saveLocation, {recursive: true}) creates every missing directory.
DirsOf(path) == {[up |-> path.up, dirs |-> Slice(path.dirs, n)] : n \in 0..Len(path.dirs)}

\* The sitemap entry of a page: the key without its outer slashes, after the
\* domain and the root path, which are the same for every page of a run.
SitemapEntry(object) == removeLeadingTrailingSlashes(object.Key)

\* ---------------------------------------------------------- the run
NoFile == [written |-> FALSE, urls |-> {}]

\* The state the main routine starts in, whatever options are set; command is
\* the first ListObjectsCommand, which carries no marker.
StartState ==
    /\ pc = "checkDomain"
    /\ command = [Marker |-> NoMarker, MaxKeys |-> FirstMaxKeys]
    /\ response = Unset
    /\ network = <<>>
    /\ allObjects = <<>>
    /\ lastReturned = Unset
    /\ servedObjects = <<>>
    /\ result = <<>>
    /\ tasks = <<>>
    /\ sitemap = {}
    /\ dirs = {}
    /\ files = {}
    /\ sitemapFile = NoFile
    /\ publicCopy = "none"

Init ==
    /\ options \in [bucket : BOOLEAN, domain : BOOLEAN, includeSitemap : BOOLEAN,
                    includeHiddenFiles : BOOLEAN]
    /\ StartState

\* if (options.includeSitemap && !options.domain) process.exit(1)
CheckDomain ==
    /\ pc = "checkDomain"
    /\ pc' = IF options.includeSitemap /\ ~options.domain THEN "exit1" ELSE "checkBucket"
    /\ UNCHANGED <<options, listingVars, result, tasks, outputVars>>

\* Faulty variant: the bucket check reports and goes on.
CheckBucketGoesOn ==
    /\ pc = "checkBucket"
    /\ pc' = "send"
    /\ UNCHANGED <<options, listingVars, result, tasks, outputVars>>

\* The S3 client is built; if (!options.bucket) process.exit(1).
CheckBucket ==
    /\ pc = "checkBucket"
    /\ pc' = IF ~options.bucket THEN "exit1" ELSE "send"
    /\ UNCHANGED <<options, listingVars, result, tasks, outputVars>>

\* response = await s3Client.send(command): the request leaves.
SendRequest ==
    /\ pc = "send"
    /\ network' = Append(network, command)
    /\ pc' = "await"
    /\ UNCHANGED <<options, command, response, allObjects, lastReturned,
                   servedObjects, result, tasks, outputVars>>

\* Faulty variant: the next command is built without the marker of the response.
HandleResponseNoMarker(contents, nextMarker) ==
    /\ allObjects' = allObjects \o contents
    /\ response' = nextMarker
    /\ command' = [Marker |-> NoMarker, MaxKeys |-> NextMaxKeys]
    /\ pc' = IF nextMarker # NoMarker THEN "send" ELSE "map"

\* The loop body after the await, for a response with these Contents and
\* this NextMarker.
HandleResponse(contents, nextMarker) ==
    /\ allObjects' = allObjects \o contents
    /\ response' = nextMarker
    /\ command' = [Marker |-> nextMarker, MaxKeys |-> NextMaxKeys]
    /\ pc' = IF nextMarker # NoMarker THEN "send" ELSE "map"

\* Storage answers the outstanding request with a page of keys it has not
\* served yet and a marker or none; the loop body runs on the response.
ReceiveResponse ==
    /\ pc = "await"
    /\ network # <<>>
    /\ \E contents \in ListingsAvoiding(MaxServedChars - TotalChars(servedObjects),
                                        SeqToSet(servedObjects)),
          nextMarker \in Markers \cup {NoMarker} :
          /\ HandleResponse(contents, nextMarker)
          /\ servedObjects' = servedObjects \o contents
          /\ lastReturned' = nextMarker
    /\ network' = Tail(network)
    /\ UNCHANGED <<options, result, tasks, outputVars>>

\* s3Client.send rejects: the main routine rejects with it.
ListingFails ==
    /\ pc = "await"
    /\ network # <<>>
    /\ network' = Tail(network)
    /\ pc' = "rejected"
    /\ UNCHANGED <<options, command, response, allObjects, lastReturned,
                   servedObjects, result, tasks, outputVars>>

\* allObjects.map(...): the listed objects are classified.
MapObjects ==
    /\ pc = "map"
    /\ IF MapThrows(allObjects)
       THEN pc' = "rejected" /\ result' = result
       ELSE /\ result' = [i \in 1..Len(allObjects) |-> MapObject(allObjects[i], allObjects)]
            /\ pc' = "flatMap"
    /\ UNCHANGED <<options, listingVars, tasks, outputVars>>

\* .flatMap(...): every object is followed by its ancestor folders.
FlatMapAncestors ==
    /\ pc = "flatMap"
    /\ result' = FlatMap(result)
    /\ pc' = "filter"
    /\ UNCHANGED <<options, listingVars, tasks, outputVars>>

\* .filter(...): the first node of every normalized key stays.
FilterDuplicates ==
    /\ pc = "filter"
    /\ result' = FilterDuplicateKeys(result)
    /\ pc' = "children"
    /\ UNCHANGED <<options, listingVars, tasks, outputVars>>

\* .map(...): every node gets its Children.
MapChildren ==
    /\ pc = "children"
    /\ result' = [i \in 1..Len(result) |-> WithChildren(result[i], result)]
    /\ pc' = "spawn"
    /\ UNCHANGED <<options, listingVars, tasks, outputVars>>

\* result.map(async (object) => ...): every callback runs to its first await.
SpawnTasks ==
    /\ pc = "spawn"
    /\ tasks' = [i \in 1..Len(result) |-> SpawnTask(result[i], options.includeHiddenFiles)]
    /\ pc' = "join"
    /\ UNCHANGED <<options, listingVars, result, outputVars>>

\* Tasks run while the main routine awaits the join; after a rejection they
\* run on for as long as the process lives.
TasksRun == pc \in {"join", "rejected"}

\* ejs.renderFile resolves.
RenderDone(i) ==
    /\ TasksRun
    /\ tasks[i].state = "render"
    /\ tasks' = [tasks EXCEPT ![i].state = "mkdir"]
    /\ UNCHANGED <<options, pc, listingVars, result, outputVars>>

\* fs.mkdir(saveLocation, {recursive: true}) resolves.
MkdirDone(i) ==
    /\ TasksRun
    /\ tasks[i].state = "mkdir"
    /\ dirs' = dirs \cup DirsOf(pathJoin(result[i].Key))
    /\ tasks' = [tasks EXCEPT ![i].state = "write"]
    /\ UNCHANGED <<options, pc, listingVars, result, sitemap, files, sitemapFile,
                   publicCopy>>

\* fs.writeFile(path.join(saveLocation, "index.html"), file) resolves and the
\* entry of the page is added to the sitemap.
WriteDone(i) ==
    /\ TasksRun
    /\ tasks[i].state = "write"
    /\ LET path == IndexPath(result[i].Key)
           others == {f \in files : f.path # path}
       IN  files' = others \cup {[path |-> path, page |-> PageOf(result[i], tasks[i])]}
    /\ sitemap' = sitemap \cup {SitemapEntry(result[i])}
    /\ tasks' = [tasks EXCEPT ![i].state = "done"]
    /\ UNCHANGED <<options, pc, listingVars, result, dirs, sitemapFile, publicCopy>>

\* The pending render, mkdir or write of a task rejects.
TaskFails(i) ==
    /\ TasksRun
    /\ tasks[i].state \in {"render", "mkdir", "write"}
    /\ tasks' = [tasks EXCEPT ![i].state = "failed"]
    /\ UNCHANGED <<options, pc, listingVars, result, outputVars>>

\* Faulty variant: the join waits for the tasks to settle, failed or not.
JoinResolvesWhenSettled ==
    /\ pc = "join"
    /\ \A i \in 1..Len(tasks) : tasks[i].state \in {"returned", "done", "failed"}
    /\ pc' = "sitemap"
    /\ UNCHANGED <<options, listingVars, result, tasks, outputVars>>

\* Promise.all resolves once every task has.
JoinResolves ==
    /\ pc = "join"
    /\ \A i \in 1..Len(tasks) : tasks[i].state \in {"returned", "done"}
    /\ pc' = "sitemap"
    /\ UNCHANGED <<options, listingVars, result, tasks, outputVars>>

\* Promise.all rejects with the first task that rejects.
JoinRejects ==
    /\ pc = "join"
    /\ \E i \in 1..Len(tasks) : tasks[i].state = "failed"
    /\ pc' = "rejected"
    /\ UNCHANGED <<options, listingVars, result, tasks, outputVars>>

\* if (options.includeSitemap) fs.writeFile(".../sitemap.xml", ...)
WriteSitemap ==
    /\ pc = "sitemap"
    /\ sitemapFile' = IF options.includeSitemap
                      THEN [written |-> TRUE, urls |-> sitemap] ELSE sitemapFile
    /\ pc' = "copy"
    /\ UNCHANGED <<options, listingVars, result, tasks, sitemap, dirs, files, publicCopy>>

\* The write of sitemap.xml rejects.
SitemapFails ==
    /\ pc = "sitemap"
    /\ options.includeSitemap
    /\ pc' = "rejected"
    /\ UNCHANGED <<options, listingVars, result, tasks, outputVars>>

\* copyDir(public, output/public) is called and not awaited.
StartCopy ==
    /\ pc = "copy"
    /\ publicCopy' = "running"
    /\ pc' = "done"
    /\ UNCHANGED <<options, listingVars, result, tasks, sitemap, dirs, files, sitemapFile>>

\* copyDir resolves or rejects.
CopyEnds ==
    /\ publicCopy = "running"
    /\ publicCopy' \in {"copied", "failed"}
    /\ UNCHANGED <<options, pc, listingVars, result, tasks, sitemap, dirs, files,
                   sitemapFile>>

TaskStep ==
    \E i \in 1..Len(tasks) : RenderDone(i) \/ MkdirDone(i) \/ WriteDone(i) \/ TaskFails(i)

Next ==
    \/ CheckDomain
    \/ CheckBucket
    \/ SendRequest
    \/ ReceiveResponse
    \/ ListingFails
    \/ MapObjects
    \/ FlatMapAncestors
    \/ FilterDuplicates
    \/ MapChildren
    \/ SpawnTasks
    \/ TaskStep
    \/ JoinResolves
    \/ JoinRejects
    \/ WriteSitemap
    \/ SitemapFails
    \/ StartCopy
    \/ CopyEnds

Spec == Init /\ [][Next]_vars

\* The node pipeline and the page models on every listing of the bound: the
\* state after a listing loop that accumulated the listing.
TreeInit ==
    /\ options \in [bucket : {TRUE}, domain : {FALSE}, includeSitemap : {FALSE},
                    includeHiddenFiles : BOOLEAN]
    /\ pc = "map"
    /\ command = [Marker |-> NoMarker, MaxKeys |-> NextMaxKeys]
    /\ response = NoMarker
    /\ network = <<>>
    /\ allObjects \in ListingsUpTo(MaxChars)
    /\ lastReturned = NoMarker
    /\ servedObjects = allObjects
    /\ result = <<>>
    /\ tasks = <<>>
    /\ sitemap = {}
    /\ dirs = {}
    /\ files = {}
    /\ sitemapFile = NoFile
    /\ publicCopy = "none"

TreeNext ==
    \/ MapObjects
    \/ FlatMapAncestors
    \/ FilterDuplicates
    \/ MapChildren
    \/ SpawnTasks

TreeSpec == TreeInit /\ [][TreeNext]_vars

\* ------------------------------------------------------------ properties
\* A key without its leading and trailing slashes: from its first to its last
\* character that is not a slash.
Trimmed(key) ==
    LET idx == {i \in 1..Len(key) : key[i] # "/"}
    IN  IF idx = {} THEN <<>>
        ELSE LET first == CHOOSE i \in idx : \A j \in idx : i <= j
                 last == CHOOSE i \in idx : \A j \in idx : j <= i
             IN  [k \in 1..(last - first + 1) |-> key[first + k - 1]]

\* The name of a key: what follows the last slash of the trimmed key.
NameOf(key) ==
    LET t == Trimmed(key)
        cuts == {i \in 1..Len(t) : t[i] = "/"}
        from == IF cuts = {} THEN 0 ELSE CHOOSE i \in cuts : \A j \in cuts : j <= i
    IN  [k \in 1..(Len(t) - from) |-> t[from + k]]

\* The key is a proper literal prefix of the other raw key.
ProperPrefix(key, other) ==
    /\ Len(key) < Len(other)
    /\ [k \in 1..Len(key) |-> other[k]] = key

KeysOf(nodes) == {nodes[k].Key : k \in 1..Len(nodes)}

\* The pipeline has run: result is the final tree (empty when the run was
\* rejected before the pipeline ended).
TreeDone == pc \in {"spawn", "join", "sitemap", "copy", "done", "rejected"}

FolderNodes == {i \in 1..Len(result) : result[i].IsFolder}

\* C1: no two nodes of the final tree have the same key after stripping
\* leading and trailing slashes.
C1_UniqueNormalizedKeys ==
    TreeDone =>
        \A i, j \in 1..Len(result) :
            Trimmed(result[i].Key) = Trimmed(result[j].Key) => i = j

\* C1 witness: a final tree of a listing with two keys that differ only by
\* outer slashes, and with a key whose ancestor is synthesized twice.
C1_Witness ==
    /\ pc = "spawn"
    /\ \E i, j \in 1..Len(allObjects) :
          i # j /\ Trimmed(allObjects[i]) = Trimmed(allObjects[j])
    /\ \E i \in 1..Len(result) : result[i].LevelsDeep = 2

\* C2: for every file node of depth N of the final tree and every depth d in
\* 1..N-1, exactly one node has the first d segments of the file's key, joined
\* by "/", as its normalized key, and that node is a folder.
C2_AncestorFoldersExist ==
    TreeDone =>
        \A i \in 1..Len(result) :
            result[i].IsFile =>
                \A d \in 1..(result[i].LevelsDeep - 1) :
                    LET prefix == Join(Slice(result[i].KeyParts, d), Slash)
                        at == {j \in 1..Len(result) : Trimmed(result[j].Key) = prefix}
                    IN  /\ Cardinality(at) = 1
                        /\ \A j \in at : result[j].IsFolder

\* C3: the root's children are exactly the nodes of depth 1, and the children
\* of every other folder F are exactly the nodes whose normalized ParentKey is
\* F's normalized key, each once, F not among them.
C3_ChildrenExact ==
    TreeDone =>
        \A i \in 1..Len(result) :
            LET node == result[i]
                expected ==
                    IF Trimmed(node.Key) = <<>>
                    THEN {result[j].Key : j \in {k \in 1..Len(result) : Len(result[k].KeyParts) = 1}}
                    ELSE {result[j].Key : j \in {k \in 1..Len(result) :
                                Trimmed(result[k].ParentKey) = Trimmed(node.Key)}}
            IN  node.IsFolder =>
                    /\ KeysOf(node.Children) = expected
                    /\ Cardinality(expected) = Len(node.Children)
                    /\ Trimmed(node.Key) # <<>> => node.Key \notin KeysOf(node.Children)

\* C3 witness: a final tree whose root has two children and that has another
\* folder with a child.
C3_Witness ==
    /\ pc = "spawn"
    /\ \E i, j \in 1..Len(result) :
          /\ result[i].Key = Slash /\ Len(result[i].Children) = 2
          /\ result[j].Key # Slash /\ result[j].IsFolder /\ result[j].Children # <<>>

\* C4: when the listing returns no objects, the final tree is exactly the root
\* folder node, with no children.
C4_EmptyBucketIsRootOnly ==
    (pc \in {"spawn", "join", "sitemap", "copy", "done"} /\ allObjects = <<>>) =>
        /\ Len(result) = 1
        /\ result[1].Key = Slash
        /\ result[1].IsFolder
        /\ result[1].Children = <<>>

\* C5: a listed key is classified as a folder iff another listed key has it as
\* a proper literal prefix, otherwise as a file; every node is exactly one of
\* folder and file.
C5_FolderIffLiteralPrefix ==
    /\ \A i \in 1..Len(result) : result[i].IsFolder # result[i].IsFile
    /\ pc = "flatMap" =>
          /\ Len(result) = Len(allObjects)
          /\ \A i \in 1..Len(allObjects) :
                /\ result[i].Key = allObjects[i]
                /\ result[i].IsFolder <=>
                      \E j \in 1..Len(allObjects) : ProperPrefix(allObjects[i], allObjects[j])

\* C5 witness: the keys "a" and "aa" are listed and "a" is classified a folder.
C5_Witness ==
    /\ pc = "flatMap"
    /\ allObjects = << <<"a">>, <<"a", "a">> >>
    /\ result[1].IsFolder /\ result[2].IsFile

\* The children of node i that the page of task i shows.
ShownKeys(i) == KeysOf(tasks[i].items)

PagesBuilt == tasks # <<>>

BadOptions == ~options.bucket \/ (options.includeSitemap /\ ~options.domain)

NothingRequested == network = <<>> /\ lastReturned = Unset /\ pc # "await"

NothingWritten ==
    dirs = {} /\ files = {} /\ ~sitemapFile.written /\ publicCopy = "none"

\* C7: with the bucket unset, or the sitemap asked for without a domain, the
\* run exits with code 1 at the checks, before any listing request and any
\* write; a run that requests or writes has the bucket, and the domain if it
\* has the sitemap.
C7_PreconditionsFirst ==
    /\ BadOptions =>
          /\ pc \in {"checkDomain", "checkBucket", "exit1"}
          /\ NothingRequested
          /\ NothingWritten
    /\ (options.includeSitemap /\ ~options.domain) => pc \in {"checkDomain", "exit1"}
    /\ (~NothingRequested \/ ~NothingWritten) => ~BadOptions
    /\ pc = "exit1" => BadOptions

\* C7 witness: the run has exited with code 1 for the bucket alone.
C7_Witness ==
    /\ pc = "exit1"
    /\ ~options.bucket
    /\ ~(options.includeSitemap /\ ~options.domain)

\* The tree is final and the emission tasks are there.
Emitting == pc \in {"join", "sitemap", "copy", "done"}

\* C8: two distinct folder nodes of the final tree are written to distinct
\* index documents, so that after the join every index document holds the
\* page of its own node, whatever the order of the writes.
C8_OwnOutputPath ==
    /\ Emitting =>
          \A i, j \in FolderNodes :
              i # j => IndexPath(result[i].Key) # IndexPath(result[j].Key)
    /\ pc \in {"sitemap", "copy", "done"} =>
          \A i \in FolderNodes :
              [path |-> IndexPath(result[i].Key), page |-> PageOf(result[i], tasks[i])]
                  \in files

\* C9: the sitemap is written only once every emission task has completed
\* (directory, index document and sitemap entry of every folder node are
\* there); once a task has failed the run goes no further than the join and
\* writes no sitemap.
C9_SitemapAfterJoin ==
    /\ sitemapFile.written =>
          /\ \A i \in 1..Len(tasks) : tasks[i].state \in {"returned", "done"}
          /\ \A i \in FolderNodes :
                /\ pathJoin(result[i].Key) \in dirs
                /\ \E f \in files : f.path = IndexPath(result[i].Key)
                /\ Trimmed(result[i].Key) \in sitemapFile.urls
    /\ (\E i \in 1..Len(tasks) : tasks[i].state = "failed") =>
          /\ ~sitemapFile.written
          /\ pc \in {"join", "rejected"}
    /\ pc \in {"sitemap", "copy", "done"} =>
          \A i \in 1..Len(tasks) : tasks[i].state \in {"returned", "done"}

\* C9 witness: the sitemap is written after the pages of two folders.
C9_Witness ==
    /\ sitemapFile.written
    /\ Cardinality({i \in 1..Len(tasks) : tasks[i].state = "done"}) >= 2

\* Before the loop, in it, or rejected out of it.
BeforeOrInLoop == pc \in {"checkDomain", "checkBucket", "exit1", "send", "await"}

\* C10: at most one request is outstanding; the first request carries no
\* marker and every later one the marker of the response before it; the loop
\* is left exactly at the first response without a marker (so it ends as soon
\* as storage returns one); nothing is classified or emitted before; the
\* accumulated list is the concatenation of the pages served.
C10_SequentialListing ==
    /\ Len(network) <= 1
    /\ pc = "await" <=> Len(network) = 1
    /\ \A k \in 1..Len(network) :
          network[k].Marker = (IF lastReturned = Unset THEN NoMarker ELSE lastReturned)
    /\ lastReturned = NoMarker => ~BeforeOrInLoop
    /\ lastReturned # NoMarker => (BeforeOrInLoop \/ pc = "rejected")
    /\ lastReturned # NoMarker =>
          result = <<>> /\ tasks = <<>> /\ dirs = {} /\ files = {} /\ sitemap = {}
    /\ allObjects = servedObjects
    /\ response = lastReturned

\* C10 witness: a second request is outstanding, with the marker of the first
\* response, and the first page was not empty.
C10_Witness ==
    /\ pc = "await"
    /\ network[1].Marker \in Markers
    /\ allObjects # <<>>

====
